---- MODULE Spec2Model ----
(***************************************************************************)
(* Double opt-in subscription workflow of zero2prod:                       *)
(*   src/src/domain/subscription_token.rs   SubscriptionToken              *)
(*   src/src/routes/subscriptions.rs        POST /subscriptions            *)
(*   src/src/routes/subscriptions_confirm.rs GET /subscriptions/confirm    *)
(*                                                                         *)
(* Strings are sequences of one-character strings, so that length and      *)
(* character class are computed as the code computes them.  The two        *)
(* tables are the committed contents of the database; every request is a   *)
(* process whose steps are the handler's await points.  A subscribe        *)
(* request keeps the rows it wrote in its open transaction apart from the  *)
(* committed tables until tx.commit() (read-committed isolation).          *)
(***************************************************************************)
EXTENDS Integers, Sequences, FiniteSets, TLC

VARIABLES
    subscriptions,        \* committed rows of table subscriptions
    subscription_tokens,  \* committed rows of table subscription_tokens
    sub,                  \* state of each subscribe request
    conf,                 \* state of each confirm request
    call                  \* last call the unit tests of SubscriptionToken made

vars == <<subscriptions, subscription_tokens, sub, conf, call>>

----------------------------------------------------------------------------
(* Bounds of the model *)

\* Requests received in one run, of either kind.
MaxRequests == 2
\* Storage and transport failures (an Err from sqlx or reqwest) in one run.
MaxFailures == 1

SubReq == 1..MaxRequests
ConfReq == (MaxRequests + 1)..(2 * MaxRequests)

\* Option<T>: None is the empty set, Some(x) the set of x.
None == {}
Some(x) == {x}
Unwrap(o) == CHOOSE x \in o : TRUE

----------------------------------------------------------------------------
(* domain/subscription_token.rs *)

TOKEN_LENGTH == 25

Lower == {"a","b","c","d","e","f","g","h","i","j","k","l","m",
          "n","o","p","q","r","s","t","u","v","w","x","y","z"}
Upper == {"A","B","C","D","E","F","G","H","I","J","K","L","M",
          "N","O","P","Q","R","S","T","U","V","W","X","Y","Z"}
Digit == {"0","1","2","3","4","5","6","7","8","9"}

\* rand::distributions::Alphanumeric: a-z, A-Z, 0-9
Alphanumeric == Lower \cup Upper \cup Digit

is_ascii_alphanumeric(c) == c \in Lower \/ c \in Upper \/ c \in Digit

Repeat(c, n) == [i \in 1..n |-> c]

\* The random source: the i-th sample of a stream <<a, b>> alternates a, b.
RngStreams == { <<"a", "a">>, <<"Z", "9">> }

Sample(rng, i) == IF i % 2 = 1 THEN rng[1] ELSE rng[2]

generate_printable(rng) ==
    [i \in 1..TOKEN_LENGTH |-> IF i = TOKEN_LENGTH THEN "-" ELSE Sample(rng, i)]

generate_short(rng) == [i \in 1..(TOKEN_LENGTH - 1) |-> Sample(rng, i)]

\* repeat_with(|| rng.sample(Alphanumeric)).map(char::from).take(TOKEN_LENGTH)
generate(rng) == [i \in 1..TOKEN_LENGTH |-> Sample(rng, i)]

\* char::len_utf8: an ASCII character is one byte; the other characters of
\* the model (Latin-1 letters) are two.
Ascii == Lower \cup Upper \cup Digit
           \cup {" ", "!", "-", "_", ".", "@", "/", "?", "=", ":", "<", ">",
                 "{", "}", "(", ")", "\"", "\\"}
len_utf8(c) == IF c \in Ascii THEN 1 ELSE 2

\* String::len(): the length in bytes
RECURSIVE str_len(_)
str_len(s) == IF s = << >> THEN 0 ELSE len_utf8(Head(s)) + str_len(Tail(s))

parse_no_length(token) ==
    IF ~(\A i \in 1..Len(token) : is_ascii_alphanumeric(token[i]))
    THEN [ok |-> FALSE, err |-> "Invalid character in token."]
    ELSE [ok |-> TRUE, token |-> token]

parse_no_charset(token) ==
    IF str_len(token) # TOKEN_LENGTH
    THEN [ok |-> FALSE, err |-> "Invalid token length."]
    ELSE [ok |-> TRUE, token |-> token]

parse(token) ==
    IF str_len(token) # TOKEN_LENGTH
    THEN [ok |-> FALSE, err |-> "Invalid token length."]
    ELSE IF ~(\A i \in 1..Len(token) : is_ascii_alphanumeric(token[i]))
         THEN [ok |-> FALSE, err |-> "Invalid character in token."]
         ELSE [ok |-> TRUE, token |-> token]

----------------------------------------------------------------------------
(* Inputs *)

\* Tokens a subscribe request can generate.
GenPool == { generate(rng) : rng \in RngStreams }

\* Query parameter subscription_token of a confirm request: tokens that may
\* be issued, a well-formed token that is never issued, and malformed ones.
UnissuedToken == Repeat("q", TOKEN_LENGTH)
ShortToken == Repeat("a", TOKEN_LENGTH - 1)
BadCharToken == Repeat("a", TOKEN_LENGTH - 1) \o <<"!">>
RawTokens == GenPool \cup {UnissuedToken, ShortToken, BadCharToken}

GoodName == <<"U", " ", "L">>
OtherName == <<"L", "G">>
EmptyName == << >>
GoodEmail1 == <<"u", "@", "e", ".", "c">>
GoodEmail2 == <<"l", "@", "g", ".", "o">>
NoAtEmail == <<"u", "e", ".", "c">>

Forms == { [name |-> GoodName, email |-> GoodEmail1],
           [name |-> OtherName, email |-> GoodEmail1],
           [name |-> GoodName, email |-> GoodEmail2],
           [name |-> EmptyName, email |-> GoodEmail1],
           [name |-> GoodName, email |-> NoAtEmail] }

BaseUrl == <<"h", ":", "/", "/", "x">>

----------------------------------------------------------------------------
(* Value types SubscriberName and SubscriberEmail (crate::domain) *)

Whitespace == {" "}
ForbiddenNameChars == {"<", ">", "{", "}", "(", ")", "\"", "\\", "/"}

SubscriberName_parse(s) ==
    IF \/ Len(s) = 0
       \/ \A i \in 1..Len(s) : s[i] \in Whitespace
       \/ Len(s) > 256
       \/ \E i \in 1..Len(s) : s[i] \in ForbiddenNameChars
    THEN [ok |-> FALSE, err |-> "invalid subscriber name"]
    ELSE [ok |-> TRUE, value |-> s]

SubscriberEmail_parse(s) ==
    LET ats == {i \in 1..Len(s) : s[i] = "@"}
    IN  IF /\ Cardinality(ats) = 1
           /\ \A i \in 1..Len(s) : s[i] \notin Whitespace
           /\ \E a \in ats : /\ a > 1
                              /\ \E d \in (a + 2)..(Len(s) - 1) : s[d] = "."
        THEN [ok |-> TRUE, value |-> s]
        ELSE [ok |-> FALSE, err |-> "invalid subscriber email"]

----------------------------------------------------------------------------
(* routes/subscriptions.rs: pure parts *)

try_from_name_only(form) ==
    LET name == SubscriberName_parse(form.name)
    IN  IF ~name.ok THEN [ok |-> FALSE, err |-> name.err]
        ELSE [ok |-> TRUE, value |-> [email |-> form.email, name |-> name.value]]

\* impl TryFrom<FormData> for NewSubscriber
try_from(form) ==
    LET name == SubscriberName_parse(form.name)
        email == SubscriberEmail_parse(form.email)
    IN  IF ~name.ok THEN [ok |-> FALSE, err |-> name.err]
        ELSE IF ~email.ok THEN [ok |-> FALSE, err |-> email.err]
        ELSE [ok |-> TRUE, value |-> [email |-> email.value, name |-> name.value]]

status_code_store_is_client_error(err) ==
    CASE err \in {"ValidationError", "StoreTokenError"} -> 400
      [] err \in {"PoolError", "InsertSubscriberError", "TransactionCommitError",
                  "GetTokenError", "SendEmailError"} -> 500

\* impl ResponseError for SubscribeError
status_code(err) ==
    CASE err = "ValidationError" -> 400
      [] err \in {"PoolError", "InsertSubscriberError", "TransactionCommitError",
                  "StoreTokenError", "GetTokenError", "SendEmailError"} -> 500

ConfirmPath ==
    <<"/","s","u","b","s","c","r","i","p","t","i","o","n","s",
      "/","c","o","n","f","i","r","m",
      "?","s","u","b","s","c","r","i","p","t","i","o","n","_","t","o","k","e","n","=">>

confirmation_link_path_only(base_url, subscription_token) ==
    ConfirmPath \o subscription_token

\* format!("{}/subscriptions/confirm?subscription_token={}", base_url, token)
confirmation_link(base_url, subscription_token) ==
    base_url \o ConfirmPath \o subscription_token

\* The message send_confirmation_email hands to EmailClient::send_email.
send_confirmation_email(new_subscriber, base_url, subscription_token) ==
    [to |-> new_subscriber.email,
     link |-> confirmation_link(base_url, subscription_token)]

----------------------------------------------------------------------------
(* The database: constraints of the two tables, and the queries *)

\* UNIQUE (email) on subscriptions
subscriptions_email_key(rows, row) == \E s \in rows : s.email = row.email

\* PRIMARY KEY (id) on subscriptions
subscriptions_pkey(rows, row) == \E s \in rows : s.id = row.id

\* PRIMARY KEY (subscription_token) on subscription_tokens
subscription_tokens_pkey(rows, row) ==
    \E t \in rows : t.subscription_token = row.subscription_token

\* subscriber_id REFERENCES subscriptions (id)
subscription_tokens_fkey(subs, row) == \E s \in subs : s.id = row.subscriber_id

\* Uuid::new_v4(): one fresh id per call; request r makes at most one call.
new_v4(r) == r

check_confirmed_only(subs, toks, email) ==
    LET found == { t.subscription_token : t \in
                   { t \in toks : \E s \in subs :
                        /\ s.id = t.subscriber_id
                        /\ s.email = email
                        /\ s.status = "confirmed" } }
    IN  IF found = {} THEN {None} ELSE { Some(tok) : tok \in found }

check_always_none(subs, toks, email) == {None}

check_no_email_filter(subs, toks, email) ==
    LET found == { t.subscription_token : t \in
                   { t \in toks : \E s \in subs :
                        /\ s.id = t.subscriber_id
                        /\ s.status = "pending_confirmation" } }
    IN  IF found = {} THEN {None} ELSE { Some(t) : t \in found }

\* The results fetch_optional may give for the SELECT: None when no row
\* matches, else the token of any matching row.
check_and_get_token_pending_confirmation(subs, toks, email) ==
    LET found == { t.subscription_token : t \in
                   { t \in toks : \E s \in subs :
                        /\ s.id = t.subscriber_id
                        /\ s.email = email
                        /\ s.status = "pending_confirmation" } }
    IN  IF found = {} THEN {None} ELSE { Some(t) : t \in found }

insert_subscriber_row_swapped(subscriber_id, new_subscriber) ==
    [id |-> subscriber_id, email |-> new_subscriber.name,
     name |-> new_subscriber.email, status |-> "pending_confirmation"]

\* The row insert_subscriber inserts (subscribed_at is read by no code here).
insert_subscriber_row(subscriber_id, new_subscriber) ==
    [id |-> subscriber_id, email |-> new_subscriber.email,
     name |-> new_subscriber.name, status |-> "pending_confirmation"]

store_token_row(subscriber_id, subscription_token) ==
    [subscription_token |-> subscription_token, subscriber_id |-> subscriber_id]

get_subscriber_id_any_row(toks, subscription_token) ==
    LET found == { t.subscriber_id : t \in toks }
    IN  IF found = {} THEN {None} ELSE { Some(id) : id \in found }

\* SELECT subscriber_id ... WHERE subscription_token = $1, fetch_optional
get_subscriber_id_from_token(toks, subscription_token) ==
    LET found == { t.subscriber_id : t \in
                   { t \in toks : t.subscription_token = subscription_token } }
    IN  IF found = {} THEN {None} ELSE { Some(id) : id \in found }

confirm_subscriber_noop(subs, subscriber_id) == subs

confirm_subscriber_no_where(subs, subscriber_id) ==
    { [s EXCEPT !.status = "confirmed"] : s \in subs }

confirm_subscriber_toggle(subs, subscriber_id) ==
    { IF s.id = subscriber_id
      THEN [s EXCEPT !.status = IF @ = "confirmed" THEN "pending_confirmation"
                                ELSE "confirmed"]
      ELSE s :
      s \in subs }

\* UPDATE subscriptions SET status = 'confirmed' WHERE id = $1
confirm_subscriber(subs, subscriber_id) ==
    { IF s.id = subscriber_id THEN [s EXCEPT !.status = "confirmed"] ELSE s :
      s \in subs }

----------------------------------------------------------------------------
(* State of the requests *)

\* A subscribe request before it is received.  tx is the state of its
\* transaction, writes/twrites the rows it inserted that are not committed
\* yet, mail the message the email client accepted.
SubIdle ==
    [pc |-> "idle", form |-> None, err |-> "None", resp |-> 0, tx |-> "none",
     writes |-> {}, twrites |-> {}, branch |-> "None", id |-> None,
     tok |-> None, mail |-> None]

ConfIdle ==
    [pc |-> "idle", raw |-> None, id |-> None, err |-> "None", resp |-> 0]

\* The database a run starts from: empty, or holding the rows one earlier
\* successful subscribe request committed (subscriber 0, not yet confirmed).
InitialDatabases ==
    { [subscriptions |-> {}, subscription_tokens |-> {}] }
    \cup
    { [subscriptions |->
          {insert_subscriber_row(0, try_from(form).value)},
       subscription_tokens |-> {store_token_row(0, generate(rng))}] :
      form \in {f \in Forms : f.name = GoodName /\ f.email = GoodEmail1},
      rng \in {<<"a", "a">>} }

Init ==
    /\ \E db \in InitialDatabases :
          /\ subscriptions = db.subscriptions
          /\ subscription_tokens = db.subscription_tokens
    /\ sub = [r \in SubReq |-> SubIdle]
    /\ conf = [c \in ConfReq |-> ConfIdle]
    /\ call = None

Received ==
    Cardinality({ r \in SubReq : sub[r].pc # "idle" })
    + Cardinality({ c \in ConfReq : conf[c].pc # "idle" })

Failures ==
    Cardinality({ r \in SubReq : sub[r].err \notin {"None", "ValidationError"} })
    + Cardinality({ c \in ConfReq : conf[c].err # "None" })

\* The outcome of one call to the database or to the email client.
Outcomes == IF Failures < MaxFailures THEN {TRUE, FALSE} ELSE {TRUE}

\* Requests take the request slots in order.
NextSlot(S, busy) == { r \in S : r \notin busy /\ \A q \in S : q < r => q \in busy }

\* Rows other open transactions have inserted and not yet committed: an
\* insert that conflicts with one of them waits for that transaction to end.
OtherWrites(r) == UNION { sub[q].writes : q \in SubReq \ {r} }
OtherTWrites(r) == UNION { sub[q].twrites : q \in SubReq \ {r} }

\* An early return with Err(e): the response is e's status code and the
\* transaction, if open, is dropped, which rolls it back.
Fail(rec, e) ==
    [rec EXCEPT !.pc = "done", !.err = e, !.resp = status_code(e),
                !.tx = IF @ = "open" THEN "rolled_back" ELSE @,
                !.writes = {}, !.twrites = {}]

----------------------------------------------------------------------------
(* subscribe: routes/subscriptions.rs *)

\* lines 45-46: form.0.try_into()?, then pool.begin().await.map_err(PoolError)?
\* (validation is synchronous: the first await of the handler is begin())
Subscribe_Receive(r, form, ok) ==
    /\ sub[r].pc = "idle"
    /\ Received < MaxRequests
    /\ r \in NextSlot(SubReq, { q \in SubReq : sub[q].pc # "idle" })
    /\ LET new_subscriber == try_from(form)
           rec == [sub[r] EXCEPT !.form = Some(form)]
       IN  sub' = [sub EXCEPT ![r] =
                     IF ~new_subscriber.ok THEN Fail(rec, "ValidationError")
                     ELSE IF ~ok THEN Fail(rec, "PoolError")
                     ELSE [rec EXCEPT !.pc = "check", !.tx = "open"]]
    /\ UNCHANGED <<subscriptions, subscription_tokens, conf>>

\* lines 47-51: the idempotency lookup, and the re-parse of a pending token
Subscribe_Check(r, ok) ==
    /\ sub[r].pc = "check"
    /\ IF ~ok
       THEN sub' = [sub EXCEPT ![r] = Fail(@, "GetTokenError")]
       ELSE \E pending \in check_and_get_token_pending_confirmation(
                               subscriptions \cup sub[r].writes,
                               subscription_tokens \cup sub[r].twrites,
                               try_from(Unwrap(sub[r].form)).value.email) :
              sub' = [sub EXCEPT ![r] =
                  IF pending = None
                  THEN [@ EXCEPT !.pc = "insert", !.branch = "Created"]
                  ELSE IF parse(Unwrap(pending)).ok
                       THEN [@ EXCEPT !.pc = "commit", !.branch = "Reused",
                                      !.tok = Some(parse(Unwrap(pending)).token)]
                       ELSE Fail([@ EXCEPT !.branch = "Reused"], "ValidationError")]
    /\ UNCHANGED <<subscriptions, subscription_tokens, conf>>

Subscribe_Insert_conflict_ignored(r, ok) ==
    LET row == insert_subscriber_row(new_v4(r), try_from(Unwrap(sub[r].form)).value)
        seen == subscriptions \cup sub[r].writes
    IN  /\ sub[r].pc = "insert"
        /\ ~subscriptions_email_key(OtherWrites(r), row)
        /\ ~subscriptions_pkey(OtherWrites(r), row)
        /\ sub' = [sub EXCEPT ![r] =
              IF ~ok
              THEN Fail(@, "InsertSubscriberError")
              ELSE IF \/ subscriptions_email_key(seen, row)
                      \/ subscriptions_pkey(seen, row)
                   THEN [@ EXCEPT !.pc = "store", !.id = Some(row.id)]
                   ELSE [@ EXCEPT !.pc = "store", !.id = Some(row.id),
                                  !.writes = @ \cup {row}]]
        /\ UNCHANGED <<subscriptions, subscription_tokens, conf>>

\* lines 53-55: insert_subscriber(&mut tx, &new_subscriber)
Subscribe_Insert(r, ok) ==
    LET row == insert_subscriber_row(new_v4(r), try_from(Unwrap(sub[r].form)).value)
        seen == subscriptions \cup sub[r].writes
    IN  /\ sub[r].pc = "insert"
        /\ ~subscriptions_email_key(OtherWrites(r), row)
        /\ ~subscriptions_pkey(OtherWrites(r), row)
        /\ sub' = [sub EXCEPT ![r] =
              IF \/ ~ok
                 \/ subscriptions_email_key(seen, row)
                 \/ subscriptions_pkey(seen, row)
              THEN Fail(@, "InsertSubscriberError")
              ELSE [@ EXCEPT !.pc = "store", !.id = Some(row.id),
                             !.writes = @ \cup {row}]]
        /\ UNCHANGED <<subscriptions, subscription_tokens, conf>>

Subscribe_Store_unchecked(r, ok, rng) ==
    LET subscription_token == generate(rng)
        row == store_token_row(Unwrap(sub[r].id), subscription_token)
        seen == subscription_tokens \cup sub[r].twrites
    IN  /\ sub[r].pc = "store"
        /\ ~subscription_tokens_pkey(OtherTWrites(r), row)
        /\ sub' = [sub EXCEPT ![r] =
              IF \/ ~ok
                 \/ subscription_tokens_pkey(seen, row)
                 \/ ~subscription_tokens_fkey(subscriptions \cup sub[r].writes, row)
              THEN [@ EXCEPT !.pc = "commit", !.tok = Some(subscription_token)]
              ELSE [@ EXCEPT !.pc = "commit", !.tok = Some(subscription_token),
                             !.twrites = @ \cup {row}]]
        /\ UNCHANGED <<subscriptions, subscription_tokens, conf>>

Subscribe_Store_autocommit(r, ok, rng) ==
    LET subscription_token == generate(rng)
        row == store_token_row(Unwrap(sub[r].id), subscription_token)
        seen == subscription_tokens \cup sub[r].twrites
        failed == \/ ~ok
                  \/ subscription_tokens_pkey(seen, row)
                  \/ ~subscription_tokens_fkey(subscriptions \cup sub[r].writes, row)
    IN  /\ sub[r].pc = "store"
        /\ ~subscription_tokens_pkey(OtherTWrites(r), row)
        /\ sub' = [sub EXCEPT ![r] =
              IF failed
              THEN Fail(@, "StoreTokenError")
              ELSE [@ EXCEPT !.pc = "commit", !.tok = Some(subscription_token),
                             !.twrites = @ \cup {row}]]
        /\ subscriptions' = IF failed THEN subscriptions \cup sub[r].writes
                            ELSE subscriptions
        /\ UNCHANGED <<subscription_tokens, conf>>

\* lines 56-58: SubscriptionToken::generate(), store_token(...).await?
Subscribe_Store(r, ok, rng) ==
    LET subscription_token == generate(rng)
        row == store_token_row(Unwrap(sub[r].id), subscription_token)
        seen == subscription_tokens \cup sub[r].twrites
    IN  /\ sub[r].pc = "store"
        /\ ~subscription_tokens_pkey(OtherTWrites(r), row)
        /\ sub' = [sub EXCEPT ![r] =
              IF \/ ~ok
                 \/ subscription_tokens_pkey(seen, row)
                 \/ ~subscription_tokens_fkey(subscriptions \cup sub[r].writes, row)
              THEN Fail(@, "StoreTokenError")
              ELSE [@ EXCEPT !.pc = "commit", !.tok = Some(subscription_token),
                             !.twrites = @ \cup {row}]]
        /\ UNCHANGED <<subscriptions, subscription_tokens, conf>>

Subscribe_Commit_unchecked(r, ok) ==
    /\ sub[r].pc = "commit"
    /\ IF ok
       THEN /\ subscriptions' = subscriptions \cup sub[r].writes
            /\ subscription_tokens' = subscription_tokens \cup sub[r].twrites
            /\ sub' = [sub EXCEPT ![r] =
                  [@ EXCEPT !.pc = "send", !.tx = "committed",
                            !.writes = {}, !.twrites = {}]]
       ELSE /\ sub' = [sub EXCEPT ![r] =
                  [@ EXCEPT !.pc = "send", !.tx = "rolled_back",
                            !.writes = {}, !.twrites = {}]]
            /\ UNCHANGED <<subscriptions, subscription_tokens>>
    /\ UNCHANGED conf

\* lines 62-64: tx.commit().await.map_err(TransactionCommitError)?
Subscribe_Commit(r, ok) ==
    /\ sub[r].pc = "commit"
    /\ IF ok
       THEN /\ subscriptions' = subscriptions \cup sub[r].writes
            /\ subscription_tokens' = subscription_tokens \cup sub[r].twrites
            /\ sub' = [sub EXCEPT ![r] =
                  [@ EXCEPT !.pc = "send", !.tx = "committed",
                            !.writes = {}, !.twrites = {}]]
       ELSE /\ sub' = [sub EXCEPT ![r] = Fail(@, "TransactionCommitError")]
            /\ UNCHANGED <<subscriptions, subscription_tokens>>
    /\ UNCHANGED conf

\* lines 66-74: send_confirmation_email(...).await?; Ok(200)
Subscribe_Send(r, ok) ==
    /\ sub[r].pc = "send"
    /\ sub' = [sub EXCEPT ![r] =
          IF ok
          THEN [@ EXCEPT !.pc = "done", !.resp = 200,
                  !.mail = Some(send_confirmation_email(
                              try_from(Unwrap(sub[r].form)).value, BaseUrl,
                              Unwrap(sub[r].tok)))]
          ELSE Fail(@, "SendEmailError")]
    /\ UNCHANGED <<subscriptions, subscription_tokens, conf>>

----------------------------------------------------------------------------
(* confirm: routes/subscriptions_confirm.rs *)

\* lines 14-18: SubscriptionToken::parse, Err => 401
Confirm_Receive(c, raw) ==
    /\ conf[c].pc = "idle"
    /\ Received < MaxRequests
    /\ c \in NextSlot(ConfReq, { q \in ConfReq : conf[q].pc # "idle" })
    /\ conf' = [conf EXCEPT ![c] =
          IF parse(raw).ok
          THEN [@ EXCEPT !.pc = "lookup", !.raw = Some(raw)]
          ELSE [@ EXCEPT !.pc = "done", !.raw = Some(raw), !.resp = 401]]
    /\ UNCHANGED <<subscriptions, subscription_tokens, sub>>

\* lines 19-23, 30: get_subscriber_id_from_token; Err => 500, None => 401
Confirm_Lookup_not_found(c, ok) ==
    /\ conf[c].pc = "lookup"
    /\ IF ~ok
       THEN conf' = [conf EXCEPT ![c] =
                [@ EXCEPT !.pc = "done", !.err = "LookupError", !.resp = 500]]
       ELSE \E id \in get_subscriber_id_from_token(
                          subscription_tokens, parse(Unwrap(conf[c].raw)).token) :
              conf' = [conf EXCEPT ![c] =
                  IF id = None
                  THEN [@ EXCEPT !.pc = "done", !.resp = 404]
                  ELSE [@ EXCEPT !.pc = "update", !.id = id]]
    /\ UNCHANGED <<subscriptions, subscription_tokens, sub>>

Confirm_Lookup(c, ok) ==
    /\ conf[c].pc = "lookup"
    /\ IF ~ok
       THEN conf' = [conf EXCEPT ![c] =
                [@ EXCEPT !.pc = "done", !.err = "LookupError", !.resp = 500]]
       ELSE \E id \in get_subscriber_id_from_token(
                          subscription_tokens, parse(Unwrap(conf[c].raw)).token) :
              conf' = [conf EXCEPT ![c] =
                  IF id = None
                  THEN [@ EXCEPT !.pc = "done", !.resp = 401]
                  ELSE [@ EXCEPT !.pc = "update", !.id = id]]
    /\ UNCHANGED <<subscriptions, subscription_tokens, sub>>

\* lines 24-29: confirm_subscriber; Err => 500, Ok => 200
Confirm_Update(c, ok) ==
    /\ conf[c].pc = "update"
    /\ IF ok
       THEN /\ subscriptions' = confirm_subscriber(subscriptions, Unwrap(conf[c].id))
            /\ conf' = [conf EXCEPT ![c] = [@ EXCEPT !.pc = "done", !.resp = 200]]
       ELSE /\ conf' = [conf EXCEPT ![c] =
                  [@ EXCEPT !.pc = "done", !.err = "UpdateError", !.resp = 500]]
            /\ UNCHANGED subscriptions
    /\ UNCHANGED <<subscription_tokens, sub>>

----------------------------------------------------------------------------

Next ==
    \/ \E r \in SubReq, form \in Forms, ok \in Outcomes :
          Subscribe_Receive(r, form, ok) /\ UNCHANGED call
    \/ \E r \in SubReq, ok \in Outcomes : Subscribe_Check(r, ok) /\ UNCHANGED call
    \/ \E r \in SubReq, ok \in Outcomes : Subscribe_Insert(r, ok) /\ UNCHANGED call
    \/ \E r \in SubReq, ok \in Outcomes, rng \in RngStreams :
          Subscribe_Store(r, ok, rng) /\ UNCHANGED call
    \/ \E r \in SubReq, ok \in Outcomes : Subscribe_Commit(r, ok) /\ UNCHANGED call
    \/ \E r \in SubReq, ok \in Outcomes : Subscribe_Send(r, ok) /\ UNCHANGED call
    \/ \E c \in ConfReq, raw \in RawTokens : Confirm_Receive(c, raw) /\ UNCHANGED call
    \/ \E c \in ConfReq, ok \in Outcomes : Confirm_Lookup(c, ok) /\ UNCHANGED call
    \/ \E c \in ConfReq, ok \in Outcomes : Confirm_Update(c, ok) /\ UNCHANGED call

Spec == Init /\ [][Next]_vars

----------------------------------------------------------------------------
(* The client that re-submits its form.  A client that was answered 500    *)
(* sends the same form again; the new request runs subscribe from its      *)
(* first line.  Calls may fail any number of times.                        *)

\* lines 45-46 again, for the form of the request that was answered 500
Retry(r, ok) ==
    /\ sub[r].pc = "done"
    /\ sub[r].resp = 500
    /\ LET rec == [SubIdle EXCEPT !.form = sub[r].form]
       IN  sub' = [sub EXCEPT ![r] =
                     IF ~ok THEN Fail(rec, "PoolError")
                     ELSE [rec EXCEPT !.pc = "check", !.tx = "open"]]
    /\ UNCHANGED <<subscriptions, subscription_tokens, conf>>

\* Tokens a confirm request can present here: those an email has carried
\* (the rows a run starts with were mailed by the request that stored
\* them), and strings that were never issued.
DeliveredTokens ==
    { Unwrap(sub[q].tok) : q \in { q \in SubReq : sub[q].mail # None } }
    \cup { t.subscription_token : t \in { t \in subscription_tokens : t.subscriber_id = 0 } }

\* The forms of the clients here: they all submit the same email, with one
\* name or another; a request for another email shares no row with them.
RetryForms == { f \in Forms : f.email = GoodEmail1 }

RetryNext ==
    \/ \E r \in SubReq, form \in RetryForms, ok \in BOOLEAN :
          Subscribe_Receive(r, form, ok) /\ UNCHANGED call
    \/ \E r \in SubReq, ok \in BOOLEAN : Retry(r, ok) /\ UNCHANGED call
    \/ \E r \in SubReq, ok \in BOOLEAN : Subscribe_Check(r, ok) /\ UNCHANGED call
    \/ \E r \in SubReq, ok \in BOOLEAN : Subscribe_Insert(r, ok) /\ UNCHANGED call
    \/ \E r \in SubReq, ok \in BOOLEAN, rng \in RngStreams :
          Subscribe_Store(r, ok, rng) /\ UNCHANGED call
    \/ \E r \in SubReq, ok \in BOOLEAN : Subscribe_Commit(r, ok) /\ UNCHANGED call
    \/ \E r \in SubReq, ok \in BOOLEAN : Subscribe_Send(r, ok) /\ UNCHANGED call
    \/ \E c \in ConfReq, raw \in DeliveredTokens \cup (RawTokens \ GenPool) :
          Confirm_Receive(c, raw) /\ UNCHANGED call
    \/ \E c \in ConfReq, ok \in BOOLEAN : Confirm_Lookup(c, ok) /\ UNCHANGED call
    \/ \E c \in ConfReq, ok \in BOOLEAN : Confirm_Update(c, ok) /\ UNCHANGED call

\* A step of the client of slot r: one step of its request, or its
\* re-submission.
ClientStep(r) ==
    /\ \E ok \in BOOLEAN :
          \/ Retry(r, ok)
          \/ Subscribe_Check(r, ok)
          \/ Subscribe_Insert(r, ok)
          \/ \E rng \in RngStreams : Subscribe_Store(r, ok, rng)
          \/ Subscribe_Commit(r, ok)
          \/ Subscribe_Send(r, ok)
    /\ UNCHANGED call

\* A step of subscribe in which the pool, a query, the commit or the email
\* client returns an error of its own: an INSERT that a constraint rejects
\* is not one, it is the answer of a database that works.
CallFails ==
    /\ \E r \in SubReq :
          \/ Retry(r, FALSE)
          \/ Subscribe_Check(r, FALSE)
          \/ Subscribe_Insert(r, FALSE) /\ ~Subscribe_Insert(r, TRUE)
          \/ \E rng \in RngStreams :
                Subscribe_Store(r, FALSE, rng) /\ ~Subscribe_Store(r, TRUE, rng)
          \/ Subscribe_Commit(r, FALSE)
          \/ Subscribe_Send(r, FALSE)
    /\ UNCHANGED call

\* The client keeps re-submitting and the runtime keeps polling each
\* handler (a step of a client that stays possible is taken), and storage
\* and the email transport eventually stop failing.
RetryFairness ==
    /\ \A r \in SubReq : WF_vars(ClientStep(r))
    /\ <>[][~CallFails]_vars

RetrySpec == Init /\ [][RetryNext]_vars /\ RetryFairness

----------------------------------------------------------------------------
(* The unit tests of domain/subscription_token.rs, over wider inputs *)

\* U+00E9, a letter that is not ASCII: two bytes in UTF-8
EAcute == "e_acute"

ParseChars == {"a", "Z", "7", "!", " ", "-", EAcute}

\* Strings given to parse: of every length around TOKEN_LENGTH (and the
\* empty string), uniform or with one other character first or last.
ParseInputs ==
    { Repeat(c, n) : c \in ParseChars,
                     n \in {0, 1, TOKEN_LENGTH - 2, TOKEN_LENGTH - 1, TOKEN_LENGTH,
                            TOKEN_LENGTH + 1, 2 * TOKEN_LENGTH} }
    \cup { Repeat("a", n) \o <<c>> : c \in ParseChars,
            n \in {TOKEN_LENGTH - 2, TOKEN_LENGTH - 1, TOKEN_LENGTH} }
    \cup { <<c>> \o Repeat("Z", n) : c \in ParseChars,
            n \in {TOKEN_LENGTH - 2, TOKEN_LENGTH - 1, TOKEN_LENGTH} }

\* Streams of the random source the tests draw tokens from.
TestStreams == { <<a, b>> : a \in {"a", "z", "A", "Z", "0", "9"}, b \in Alphanumeric }

\* parse_invalid_token_length_is_err, parse_invalid_token_character_is_err:
\* SubscriptionToken::parse applied to a string
Call_parse(s) ==
    /\ call' = Some([fn |-> "parse", arg |-> s, result |-> parse(s)])
    /\ UNCHANGED <<subscriptions, subscription_tokens, sub, conf>>

\* generated_token_is_of_correct_length_and_alphanumeric, parse_valid_token_is_ok:
\* SubscriptionToken::generate(), then parse of its string (ValidTokenFixture)
Call_generate(rng) ==
    /\ call' = Some([fn |-> "generate", arg |-> generate(rng),
                     result |-> parse(generate(rng))])
    /\ UNCHANGED <<subscriptions, subscription_tokens, sub, conf>>

TokenInit ==
    /\ subscriptions = {}
    /\ subscription_tokens = {}
    /\ sub = [r \in SubReq |-> SubIdle]
    /\ conf = [c \in ConfReq |-> ConfIdle]
    /\ call = None

TokenNext ==
    \/ \E s \in ParseInputs : Call_parse(s)
    \/ \E rng \in TestStreams : Call_generate(rng)

TokenSpec == TokenInit /\ [][TokenNext]_vars

----------------------------------------------------------------------------
(* Vocabulary of the properties *)

Emails == { f.email : f \in Forms }

PendingRows(email) ==
    { s \in subscriptions : s.email = email /\ s.status = "pending_confirmation" }

TokensOf(subscriber_id) ==
    { t \in subscription_tokens : t.subscriber_id = subscriber_id }

EmailOf(r) == Unwrap(sub[r].form).email
NameOf(r) == Unwrap(sub[r].form).name

\* r2 runs its idempotency lookup now, after r1 has ended, with r1's form.
LooksUpAfter(r1, r2) ==
    /\ r1 # r2
    /\ sub[r1].pc = "done"
    /\ sub[r2].pc = "check"
    /\ sub[r2].form = sub[r1].form
    /\ sub'[r2].pc # "check"
    /\ sub'[r2].err = "None"

\* What re-using r1's token means for r2, at r2's idempotency lookup.
ReusesTokenOf(r1, r2) ==
    /\ sub'[r2].branch = "Reused"
    /\ sub'[r2].pc = "commit"
    /\ sub'[r2].tok = sub[r1].tok
    /\ sub'[r2].writes = {} /\ sub'[r2].twrites = {} /\ sub'[r2].id = None
    /\ Cardinality(PendingRows(EmailOf(r2))) = 1
    /\ \A s \in PendingRows(EmailOf(r2)) :
          TokensOf(s.id) = {store_token_row(s.id, Unwrap(sub[r1].tok))}

\* A request on the Reused branch writes nothing, its commit changes no
\* table, and the link it mails carries the token it found.
ReusedInsertsNothing ==
    \A r \in SubReq : sub[r].branch = "Reused" =>
        /\ sub[r].writes = {} /\ sub[r].twrites = {} /\ sub[r].id = None
        /\ sub[r].mail # None =>
              Unwrap(sub[r].mail) =
                 [to |-> EmailOf(r),
                  link |-> BaseUrl \o ConfirmPath \o Unwrap(sub[r].tok)]

ReusedCommitChangesNothing ==
    \A r \in SubReq :
        (sub[r].branch = "Reused" /\ sub[r].pc = "commit" /\ sub'[r].pc # "commit")
        => UNCHANGED <<subscriptions, subscription_tokens>>

----------------------------------------------------------------------------
(* C1: in every reachable committed state each email has at most one       *)
(* subscriber row with status pending_confirmation, and no two subscribe   *)
(* requests for one email that both observed "no pending token" both       *)
(* commit the row they inserted, whatever the interleaving.                *)
C1_AtMostOnePendingPerEmail ==
    /\ \A email \in Emails : Cardinality(PendingRows(email)) <= 1
    /\ \A r1, r2 \in SubReq :
          (/\ r1 # r2
           /\ sub[r1].branch = "Created" /\ sub[r2].branch = "Created"
           /\ sub[r1].form # None /\ sub[r2].form # None
           /\ EmailOf(r1) = EmailOf(r2))
          => ~(sub[r1].tx = "committed" /\ sub[r2].tx = "committed")

\* Two requests for one email both observed no pending token (the row of
\* the one that committed is still pending); the other is about to insert.
C1_Witness ==
    \E r1, r2 \in SubReq :
        /\ r1 # r2
        /\ sub[r1].branch = "Created" /\ sub[r1].tx = "committed"
        /\ sub[r2].branch = "Created" /\ sub[r2].pc = "insert"
        /\ EmailOf(r1) = EmailOf(r2)
        /\ PendingRows(EmailOf(r1)) # {}

(* C2: when a subscribe request runs its idempotency lookup after a        *)
(* successful subscribe request with the same name and email has ended,    *)
(* and the subscriber is still pending (no confirm in between), it takes   *)
(* the Reused branch with the first request's token, inserts no subscriber *)
(* row and no token row, mails a link with that same token, and exactly    *)
(* one pending row exists for the email.                                   *)
C2_SecondRunReuses ==
    /\ [](ReusedInsertsNothing
          /\ \A r1, r2 \in SubReq :
                (/\ sub[r1].resp = 200 /\ sub[r2].resp = 200
                 /\ sub[r1].form = sub[r2].form
                 /\ sub[r2].branch = "Reused")
                => sub[r2].mail = sub[r1].mail)
    /\ [][/\ ReusedCommitChangesNothing
           /\ \A r1, r2 \in SubReq :
                (/\ LooksUpAfter(r1, r2)
                 /\ sub[r1].resp = 200
                 /\ PendingRows(EmailOf(r2)) # {})
                => ReusesTokenOf(r1, r2)]_vars

\* Both runs succeeded, the second on the Reused branch with the same
\* token, and one pending row exists.
C2_Witness ==
    \E r1, r2 \in SubReq :
        /\ r1 # r2
        /\ sub[r1].resp = 200 /\ sub[r1].branch = "Created"
        /\ sub[r2].resp = 200 /\ sub[r2].branch = "Reused"
        /\ sub[r1].form = sub[r2].form
        /\ sub[r1].mail = sub[r2].mail
        /\ Cardinality(PendingRows(EmailOf(r1))) = 1

(* C3: a subscribe request sends its confirmation email only after its     *)
(* transaction has committed: no email is attempted or sent while the      *)
(* transaction is open, and a request that failed at begin, at the lookup, *)
(* at the insert, at the token store or at the commit has sent no email.   *)
C3_EmailOnlyAfterCommit ==
    \A r \in SubReq :
        /\ sub[r].pc = "send" => sub[r].tx = "committed"
        /\ sub[r].mail # None => sub[r].tx = "committed"
        /\ sub[r].tx # "committed" => sub[r].mail = None
        /\ sub[r].err \in {"PoolError", "GetTokenError", "InsertSubscriberError",
                            "StoreTokenError", "TransactionCommitError"}
           => (sub[r].pc = "done" /\ sub[r].mail = None /\ sub[r].tx # "committed")

\* One request mailed after its commit; another failed at commit and
\* ended with no mail.
C3_Witness ==
    \E r1, r2 \in SubReq :
        /\ sub[r1].mail # None /\ sub[r1].tx = "committed"
        /\ sub[r2].pc = "done" /\ sub[r2].err = "TransactionCommitError"
        /\ sub[r2].mail = None

(* C4: when the email send fails after the commit, the request answers     *)
(* 500, the send failure changes neither table, the subscriber row and the *)
(* token row of the request stay in storage, and a later subscribe with    *)
(* the same name and email (the subscriber still pending) re-uses that     *)
(* token and inserts no row.                                               *)
C4_SendFailureKeepsRows ==
    /\ [](\A r \in SubReq : sub[r].err = "SendEmailError" =>
            /\ sub[r].pc = "done" /\ sub[r].resp = 500
            /\ sub[r].tx = "committed" /\ sub[r].mail = None
            /\ \E s \in subscriptions :
                  /\ s.email = EmailOf(r)
                  /\ sub[r].branch = "Created" =>
                        (s.id = Unwrap(sub[r].id) /\ s.name = NameOf(r))
                  /\ store_token_row(s.id, Unwrap(sub[r].tok)) \in subscription_tokens)
    /\ [][/\ \A r \in SubReq :
                (sub[r].pc = "send" /\ sub'[r].pc # "send")
                => UNCHANGED <<subscriptions, subscription_tokens>>
           /\ \A r1, r2 \in SubReq :
                (/\ LooksUpAfter(r1, r2)
                 /\ sub[r1].err = "SendEmailError"
                 /\ PendingRows(EmailOf(r2)) # {})
                => ReusesTokenOf(r1, r2)]_vars

\* The first request committed a new subscriber and failed to send; the
\* retry re-used its token and succeeded.
C4_Witness ==
    \E r1, r2 \in SubReq :
        /\ sub[r1].err = "SendEmailError" /\ sub[r1].branch = "Created"
        /\ sub[r2].branch = "Reused" /\ sub[r2].resp = 200
        /\ sub[r1].form = sub[r2].form
        /\ sub[r2].tok = sub[r1].tok
        /\ Cardinality(subscriptions) = 1 /\ Cardinality(subscription_tokens) = 1

(* C5: in every reachable committed state every subscriber row is          *)
(* referenced by exactly one token row, whichever step of whichever        *)
(* request failed.                                                         *)
C5_ExactlyOneTokenPerSubscriber ==
    \A s \in subscriptions : Cardinality(TokensOf(s.id)) = 1

\* A request inserted a subscriber and failed to store its token, another
\* committed its subscriber and token.
C5_Witness ==
    \E r1, r2 \in SubReq :
        /\ sub[r1].err = "StoreTokenError" /\ sub[r1].id # None
        /\ sub[r2].branch = "Created" /\ sub[r2].tx = "committed"
        /\ \E s \in subscriptions : s.id = Unwrap(sub[r2].id)

----------------------------------------------------------------------------
(* Vocabulary of the confirm properties *)

RawOf(c) == Unwrap(conf[c].raw)

Stored(token) == \E t \in subscription_tokens : t.subscription_token = token

StatusOf(subs, subscriber_id) == { s.status : s \in { x \in subs : x.id = subscriber_id } }

WellFormed(token) ==
    /\ Len(token) = 25
    /\ \A i \in 1..Len(token) : token[i] \in Alphanumeric

InvalidForm(form) ==
    ~SubscriberName_parse(form.name).ok \/ ~SubscriberEmail_parse(form.email).ok

\* c runs its token lookup in this step, and the query does not fail.
LooksUp(c) ==
    conf[c].pc = "lookup" /\ conf'[c].pc # "lookup" /\ conf'[c].err = "None"

\* c runs its status update in this step, and the query does not fail.
Updates(c) ==
    conf[c].pc = "update" /\ conf'[c].pc # "update" /\ conf'[c].err = "None"

(* C6: confirming with an issued token sets the referenced subscriber's    *)
(* status to confirmed and answers 200; this holds whatever the status     *)
(* was before, so confirming again with the same token is accepted too and *)
(* leaves the status confirmed.                                            *)
C6_ConfirmIsIdempotent ==
    /\ [](\A c \in ConfReq : conf[c].resp = 200 =>
            /\ conf[c].pc = "done" /\ conf[c].id # None
            /\ store_token_row(Unwrap(conf[c].id), RawOf(c)) \in subscription_tokens
            /\ StatusOf(subscriptions, Unwrap(conf[c].id)) = {"confirmed"})
    /\ [][\A c \in ConfReq :
             /\ (LooksUp(c) /\ Stored(RawOf(c)))
                => (/\ conf'[c].pc = "update" /\ conf'[c].id # None
                    /\ store_token_row(Unwrap(conf'[c].id), RawOf(c))
                          \in subscription_tokens)
             /\ Updates(c)
                => (/\ conf'[c].pc = "done" /\ conf'[c].resp = 200
                    /\ StatusOf(subscriptions', Unwrap(conf[c].id)) = {"confirmed"})]_vars

\* Two confirm requests with the same issued token were both answered 200
\* and the subscriber is confirmed.
C6_Witness ==
    \E c1, c2 \in ConfReq :
        /\ c1 # c2
        /\ conf[c1].resp = 200 /\ conf[c2].resp = 200
        /\ conf[c1].raw = conf[c2].raw
        /\ StatusOf(subscriptions, Unwrap(conf[c1].id)) = {"confirmed"}

(* C7: when the token of a confirm request is well-formed but is not in    *)
(* the token table at the lookup, the request ends at the lookup with 401  *)
(* and the status of no subscriber row changes.                            *)
C7_UnissuedTokenRejected ==
    [][\A c \in ConfReq :
          (LooksUp(c) /\ WellFormed(RawOf(c)) /\ ~Stored(RawOf(c)))
          => (/\ conf'[c].pc = "done" /\ conf'[c].resp = 401
              /\ conf'[c].id = None
              /\ subscriptions' = subscriptions)]_vars

\* The never-issued token was rejected while a pending subscriber exists.
C7_Witness ==
    \E c \in ConfReq :
        /\ conf[c].pc = "done" /\ conf[c].raw = Some(UnissuedToken)
        /\ conf[c].resp = 401 /\ conf[c].err = "None"
        /\ \E s \in subscriptions : s.status = "pending_confirmation"

(* C8 as claimed: a confirm request that completes its update on a         *)
(* subscriber that is already confirmed gets the generic rejection (401),  *)
(* like an unknown or malformed token.                                     *)
C8_AlreadyConfirmedRejected ==
    [][\A c \in ConfReq :
          (Updates(c) /\ StatusOf(subscriptions, Unwrap(conf[c].id)) = {"confirmed"})
          => conf'[c].resp = 401]_vars

(* C8 as amended: a never-issued token and a malformed token get the same  *)
(* generic rejection (401), and a token whose subscriber is already        *)
(* confirmed gets the same answer as one whose subscriber is still         *)
(* pending, namely success (200).                                          *)
C8_ResponseByTokenOnly ==
    /\ [](\A c \in ConfReq : (conf[c].pc = "done" /\ conf[c].err = "None") =>
            /\ conf[c].id = None => conf[c].resp = 401
            /\ conf[c].id # None => conf[c].resp = 200)
    /\ [][\A c \in ConfReq, status \in {"pending_confirmation", "confirmed"} :
             (Updates(c) /\ StatusOf(subscriptions, Unwrap(conf[c].id)) = {status})
             => conf'[c].resp = 200]_vars

\* A confirm request is about to update a subscriber that another
\* request, answered 200, has already confirmed.
C8_Witness ==
    \E c1, c2 \in ConfReq :
        /\ conf[c1].pc = "done" /\ conf[c1].resp = 200
        /\ conf[c2].pc = "done" /\ conf[c2].resp = 200
        /\ c1 # c2 /\ conf[c1] = conf[c2]

(* C9: a subscribe request whose name or email fails validation ends with  *)
(* ValidationError (400) in its first step: no transaction is begun, no    *)
(* row is read or written, no email is sent, and both tables are           *)
(* unchanged.                                                              *)
C9_InvalidFormRejectedFirst ==
    /\ [](\A r \in SubReq : (sub[r].form # None /\ InvalidForm(Unwrap(sub[r].form))) =>
            /\ sub[r].pc = "done" /\ sub[r].err = "ValidationError"
            /\ sub[r].resp = 400 /\ sub[r].tx = "none"
            /\ sub[r].branch = "None" /\ sub[r].id = None
            /\ sub[r].writes = {} /\ sub[r].twrites = {}
            /\ sub[r].tok = None /\ sub[r].mail = None)
    /\ [][\A r \in SubReq :
             (sub[r].pc = "idle" /\ sub'[r].pc # "idle"
              /\ InvalidForm(Unwrap(sub'[r].form)))
             => UNCHANGED <<subscriptions, subscription_tokens>>]_vars

\* An empty name and an email without @ were both rejected.
C9_Witness ==
    \E r1, r2 \in SubReq :
        /\ sub[r1].form # None /\ NameOf(r1) = EmptyName
        /\ sub[r2].form # None /\ EmailOf(r2) = NoAtEmail
        /\ sub[r1].resp = 400 /\ sub[r2].resp = 400

(* C10: a confirm request whose token is malformed (wrong length or a      *)
(* non-alphanumeric character) ends with 401 at once: it never stands      *)
(* before the token lookup or the status update and never holds a          *)
(* subscriber id.                                                          *)
C10_MalformedTokenNeverLookedUp ==
    \A c \in ConfReq : (conf[c].raw # None /\ ~WellFormed(RawOf(c))) =>
        /\ conf[c].pc = "done" /\ conf[c].resp = 401
        /\ conf[c].id = None /\ conf[c].err = "None"

\* A token of 24 characters and one with a '!' were both rejected while
\* the token table holds a token.
C10_Witness ==
    \E c1, c2 \in ConfReq :
        /\ conf[c1].raw = Some(ShortToken) /\ conf[c1].resp = 401
        /\ conf[c2].raw = Some(BadCharToken) /\ conf[c2].resp = 401
        /\ subscription_tokens # {}

----------------------------------------------------------------------------
(* Properties of SubscriptionToken, under TokenSpec *)

Called(fn) == call # None /\ Unwrap(call).fn = fn

(* C11: parse returns an error for every string whose length (in           *)
(* characters or in bytes) is not 25, the empty and the over-long strings  *)
(* included, and for every string of length 25 with a non-alphanumeric     *)
(* character; it returns a token, holding the string given, exactly for    *)
(* the strings of 25 alphanumeric characters.                              *)
C11_ParseAcceptsExactlyWellFormed ==
    Called("parse") =>
        LET s == Unwrap(call).arg
            result == Unwrap(call).result
        IN  /\ Len(s) # 25 => ~result.ok
            /\ str_len(s) # 25 => ~result.ok
            /\ (Len(s) = 25 /\ \E i \in 1..Len(s) : s[i] \notin Alphanumeric)
               => ~result.ok
            /\ result.ok <=> WellFormed(s)
            /\ result.ok => result.token = s

\* parse rejected a string of 25 characters of which the last is '!'.
C11_Witness ==
    /\ Called("parse")
    /\ Unwrap(call).arg = BadCharToken
    /\ ~Unwrap(call).result.ok

(* C12: every token generate() produces has length 25 and only             *)
(* alphanumeric characters, and parse of its string succeeds and yields a  *)
(* token with the same string.                                             *)
C12_GenerateParseRoundTrip ==
    Called("generate") =>
        LET token == Unwrap(call).arg
            result == Unwrap(call).result
        IN  /\ Len(token) = 25
            /\ \A i \in 1..Len(token) : token[i] \in Alphanumeric
            /\ result.ok
            /\ result.token = token

\* A generated token that mixes a letter and a digit was parsed back.
C12_Witness ==
    /\ Called("generate")
    /\ Unwrap(call).arg = generate(<<"Z", "9">>)
    /\ Unwrap(call).result.ok
    /\ Unwrap(call).result.token = Unwrap(call).arg

----------------------------------------------------------------------------
(* Properties of the workflow, under Spec *)

RowsOfEmail(email) == { s \in subscriptions : s.email = email }

\* r commits in this step.
Commits(r) == sub[r].pc = "commit" /\ sub'[r].tx = "committed"

(* C13: a subscribe request with a valid form whose lookup finds no row    *)
(* for the email takes the Created branch; its commit adds exactly one     *)
(* subscriber row, with status pending_confirmation, and exactly one token *)
(* row referencing it; when no step fails it answers 200 having sent one   *)
(* email, addressed to the submitted email, whose link is                  *)
(* {base_url}/subscriptions/confirm?subscription_token={token} with the    *)
(* token stored for that subscriber.                                       *)
C13_NewSubscriberCreated ==
    /\ [](\A r \in SubReq : (sub[r].resp = 200 /\ sub[r].branch = "Created") =>
            /\ sub[r].pc = "done" /\ sub[r].err = "None"
            /\ \E s \in subscriptions :
                  /\ RowsOfEmail(EmailOf(r)) = {s}
                  /\ s.id = Unwrap(sub[r].id) /\ s.name = NameOf(r)
                  /\ TokensOf(s.id) = {[subscription_token |-> Unwrap(sub[r].tok),
                                        subscriber_id |-> s.id]}
            /\ WellFormed(Unwrap(sub[r].tok))
            /\ sub[r].mail =
                  Some([to |-> EmailOf(r),
                        link |-> BaseUrl \o ConfirmPath \o Unwrap(sub[r].tok)]))
    /\ [][\A r \in SubReq :
             /\ (/\ sub[r].pc = "check" /\ sub'[r].pc # "check"
                 /\ sub'[r].err = "None"
                 /\ RowsOfEmail(EmailOf(r)) = {})
                => (sub'[r].branch = "Created" /\ sub'[r].pc = "insert")
             /\ (Commits(r) /\ sub[r].branch = "Created")
                => LET row == [id |-> Unwrap(sub[r].id), email |-> EmailOf(r),
                               name |-> NameOf(r), status |-> "pending_confirmation"]
                       trow == [subscription_token |-> Unwrap(sub[r].tok),
                                subscriber_id |-> Unwrap(sub[r].id)]
                   IN  /\ row \notin subscriptions /\ trow \notin subscription_tokens
                       /\ subscriptions' = subscriptions \cup {row}
                       /\ subscription_tokens' = subscription_tokens \cup {trow}
             /\ (sub[r].pc = "send" /\ sub'[r].pc # "send")
                => (/\ sub[r].mail = None
                    /\ sub'[r].pc = "done"
                    /\ sub'[r].mail # None <=> sub'[r].resp = 200)]_vars

\* The only request of the run created the subscriber, stored the token
\* and mailed the link; the row is pending.
C13_Witness ==
    \E r \in SubReq :
        /\ sub[r].resp = 200 /\ sub[r].branch = "Created"
        /\ sub[r].form = Some([name |-> GoodName, email |-> GoodEmail1])
        /\ sub[r].mail # None
        /\ Cardinality(subscriptions) = 1 /\ Cardinality(subscription_tokens) = 1
        /\ \A s \in subscriptions : s.status = "pending_confirmation"

UnexpectedErrors ==
    {"PoolError", "GetTokenError", "InsertSubscriberError", "StoreTokenError",
     "TransactionCommitError", "SendEmailError"}

(* C14: a subscribe request that has ended has exactly one of three        *)
(* outcomes: 400 with ValidationError, and only for a form that fails      *)
(* validation; 500 with the error of the step that failed (begin, lookup,  *)
(* insert, token store, commit or email send); 200 with no error, and only *)
(* after its commit and its email send both succeeded.  A request still    *)
(* running has no response.                                                *)
C14_ThreeOutcomes ==
    \A r \in SubReq :
        /\ sub[r].pc # "done" => (sub[r].resp = 0 /\ sub[r].err = "None")
        /\ sub[r].pc = "done" =>
              /\ sub[r].resp \in {200, 400, 500}
              /\ sub[r].resp = 400 <=> sub[r].err = "ValidationError"
              /\ sub[r].resp = 500 <=> sub[r].err \in UnexpectedErrors
              /\ sub[r].resp = 200 <=> sub[r].err = "None"
              /\ sub[r].resp = 400 => InvalidForm(Unwrap(sub[r].form))
              /\ sub[r].resp = 200 => (sub[r].tx = "committed" /\ sub[r].mail # None)
              /\ sub[r].err = "PoolError" => sub[r].tx = "none"
              /\ sub[r].err \in {"GetTokenError", "InsertSubscriberError",
                                  "StoreTokenError", "TransactionCommitError"}
                 => sub[r].tx = "rolled_back"
              /\ sub[r].err = "SendEmailError" => sub[r].tx = "committed"

\* One request was rejected as invalid, another failed to store its token.
C14_Witness ==
    \E r1, r2 \in SubReq :
        /\ sub[r1].pc = "done" /\ sub[r1].resp = 400
        /\ sub[r2].pc = "done" /\ sub[r2].resp = 500
        /\ sub[r2].err = "StoreTokenError"

(* C15: in every step each subscriber row is kept with its id, name and    *)
(* email; its status changes only in the status update of a confirm        *)
(* request that looked up this row's id, and only from                     *)
(* pending_confirmation to confirmed; a confirmed row stays confirmed.     *)
C15_StatusOnlyByConfirm ==
    [][ \A s \in subscriptions :
          \E s2 \in subscriptions' :
            /\ s2.id = s.id /\ s2.name = s.name /\ s2.email = s.email
            /\ s.status = "confirmed" => s2.status = "confirmed"
            /\ s2.status # s.status =>
                  /\ s.status = "pending_confirmation"
                  /\ s2.status = "confirmed"
                  /\ \E c \in ConfReq : Updates(c) /\ conf[c].id = Some(s.id)
      ]_vars

\* A row was confirmed, and a later subscribe request for its email, the
\* only subscribe request of the run, found no pending row and failed on its
\* insert: the row is still there and still confirmed.
C15_Witness ==
    \E r \in SubReq, c \in ConfReq, s \in subscriptions :
        /\ conf[c].pc = "done" /\ conf[c].resp = 200 /\ conf[c].id = Some(s.id)
        /\ s.status = "confirmed"
        /\ sub[r].pc = "done" /\ sub[r].err = "InsertSubscriberError"
        /\ EmailOf(r) = s.email
        /\ \A q \in SubReq \ {r} : sub[q].pc = "idle"

\* r runs its subscriber insert in this step.
Inserts(r) == sub[r].pc = "insert" /\ sub'[r].pc # "insert"

(* C16: an insert that meets a committed row with its email ends the       *)
(* request at once with InsertSubscriberError and 500, rolls its           *)
(* transaction back and changes no table.  When two requests for one email *)
(* both took the Created branch, one committed and the other ended with    *)
(* InsertSubscriberError, the failed one has sent no email and left no row,*)
(* and the committed one's subscriber row and token row are stored.        *)
C16_ConflictingInsertSurfaces ==
    /\ [](\A r1, r2 \in SubReq :
            (/\ r1 # r2
             /\ sub[r1].branch = "Created" /\ sub[r2].branch = "Created"
             /\ EmailOf(r1) = EmailOf(r2)
             /\ sub[r1].tx = "committed"
             /\ sub[r2].pc = "done" /\ sub[r2].err = "InsertSubscriberError")
            => /\ sub[r2].resp = 500
               /\ sub[r2].mail = None
               /\ sub[r2].tx = "rolled_back"
               /\ \A s \in subscriptions : s.id # new_v4(r2)
               /\ \A t \in subscription_tokens : t.subscriber_id # new_v4(r2)
               /\ \E s \in subscriptions :
                     /\ s.id = new_v4(r1) /\ s.email = EmailOf(r1)
                     /\ TokensOf(s.id)
                          = {store_token_row(s.id, Unwrap(sub[r1].tok))})
    /\ [][ \A r \in SubReq :
            (Inserts(r) /\ RowsOfEmail(EmailOf(r)) # {})
            => /\ sub'[r].pc = "done"
               /\ sub'[r].err = "InsertSubscriberError"
               /\ sub'[r].resp = 500
               /\ sub'[r].tx = "rolled_back"
               /\ sub'[r].mail = None
               /\ subscriptions' = subscriptions
               /\ subscription_tokens' = subscription_tokens
      ]_vars

\* Two requests for one email both found no pending token, in a run with no
\* confirm request; one succeeded and the other failed on its insert.
C16_Witness ==
    \E r1, r2 \in SubReq :
        /\ r1 # r2
        /\ sub[r1].branch = "Created" /\ sub[r2].branch = "Created"
        /\ EmailOf(r1) = EmailOf(r2)
        /\ sub[r1].pc = "done" /\ sub[r1].resp = 200
        /\ sub[r2].pc = "done" /\ sub[r2].err = "InsertSubscriberError"
        /\ \A c \in ConfReq : conf[c].pc = "idle"
        /\ Cardinality(subscriptions) = 1

\* The errors subscribe can return before its commit has succeeded.
ErrorsBeforeCommit ==
    {"PoolError", "GetTokenError", "ValidationError", "InsertSubscriberError",
     "StoreTokenError", "TransactionCommitError"}

(* C17: a step of a subscribe request changes the tables only when it is   *)
(* the successful commit of that request; so a request that ended with an  *)
(* error of a step up to and including the commit has changed nothing: its *)
(* transaction is not committed, and no subscriber row and no token row    *)
(* carries the id it drew.                                                 *)
C17_FailureBeforeCommitChangesNothing ==
    /\ [](\A r \in SubReq :
            (sub[r].pc = "done" /\ sub[r].err \in ErrorsBeforeCommit)
            => /\ sub[r].tx \in {"none", "rolled_back"}
               /\ sub[r].writes = {} /\ sub[r].twrites = {}
               /\ sub[r].branch = "Created" =>
                     /\ \A s \in subscriptions : s.id # new_v4(r)
                     /\ \A t \in subscription_tokens : t.subscriber_id # new_v4(r))
    /\ [][ \A r \in SubReq :
            (sub'[r] # sub[r] /\ ~Commits(r))
            => /\ subscriptions' = subscriptions
               /\ subscription_tokens' = subscription_tokens
      ]_vars

\* A request inserted its subscriber row in its transaction and then failed
\* to store the token: the row is not in the table.
C17_Witness ==
    \E r \in SubReq :
        /\ sub[r].pc = "done" /\ sub[r].branch = "Created"
        /\ sub[r].err = "StoreTokenError"
        /\ sub[r].id = Some(new_v4(r))
        /\ \A s \in subscriptions : s.id # new_v4(r)

\* The token stored for the subscriber row of email.
StoredTokensOf(email) ==
    { t.subscription_token : t \in
      { t \in subscription_tokens :
          \E s \in RowsOfEmail(email) : s.id = t.subscriber_id } }

\* r committed a new pending subscriber and its email send failed.
SendFailedAfterCommit(r) ==
    /\ sub[r].pc = "done"
    /\ sub[r].err = "SendEmailError"
    /\ sub[r].branch = "Created"

\* Some request for email is in that state.
SendFailedFor(email) ==
    \E r \in SubReq : SendFailedAfterCommit(r) /\ EmailOf(r) = email

\* Some request for email was answered 200 after an email that carries
\* the token stored for that email.
Delivered(email) ==
    \E q \in SubReq :
        /\ sub[q].pc = "done"
        /\ sub[q].resp = 200
        /\ EmailOf(q) = email
        /\ \E tok \in StoredTokensOf(email) :
              Unwrap(sub[q].mail).link = BaseUrl \o ConfirmPath \o tok

C19_StoredTokensWellFormed ==
    /\ \A t \in subscription_tokens : WellFormed(t.subscription_token)
    /\ \A r \in SubReq :
          /\ \A t \in sub[r].twrites : WellFormed(t.subscription_token)
          /\ sub[r].branch = "Reused" =>
                /\ sub[r].err # "ValidationError"
                /\ sub[r].tok # None
                /\ WellFormed(Unwrap(sub[r].tok))
          /\ (sub[r].form # None /\ ~InvalidForm(Unwrap(sub[r].form))) =>
                (sub[r].err # "ValidationError" /\ sub[r].resp # 400)

\* A request with a valid form found a pending token, re-parsed it and was
\* answered 200.
C19_Witness ==
    \E r \in SubReq :
        /\ sub[r].pc = "done" /\ sub[r].resp = 200
        /\ sub[r].branch = "Reused"
        /\ ~InvalidForm(Unwrap(sub[r].form))
        /\ Stored(Unwrap(sub[r].tok))

\* c takes a step.
ConfirmSteps(c) == conf'[c] # conf[c]

(* C20: a step of a confirm request leaves the token table as it is and    *)
(* adds or removes no subscriber row; it changes no name and no email, and *)
(* it changes a status only in its update step and only of the row whose   *)
(* id its lookup returned.  A request that is rejected or fails changes    *)
(* nothing.                                                                *)
C20_ConfirmFrame ==
    [][ \A c \in ConfReq :
          ConfirmSteps(c) =>
            /\ subscription_tokens' = subscription_tokens
            /\ { s.id : s \in subscriptions' } = { s.id : s \in subscriptions }
            /\ Cardinality(subscriptions') = Cardinality(subscriptions)
            /\ \A s \in subscriptions :
                  \E s2 \in subscriptions' :
                    /\ s2.id = s.id /\ s2.name = s.name /\ s2.email = s.email
                    /\ s2.status # s.status =>
                          (conf[c].pc = "update" /\ conf[c].id = Some(s.id))
            /\ conf'[c].resp # 200 => subscriptions' = subscriptions
      ]_vars

\* A confirm request was answered 200 and confirmed its subscriber while
\* another subscriber is stored and still pending.
C20_Witness ==
    \E c \in ConfReq, s1, s2 \in subscriptions :
        /\ conf[c].pc = "done" /\ conf[c].resp = 200
        /\ conf[c].id = Some(s1.id)
        /\ s1.status = "confirmed"
        /\ s2.id # s1.id
        /\ s2.status = "pending_confirmation"
        /\ TokensOf(s2.id) # {}

====
